---- MODULE Spec2Model ----
(***************************************************************************)
(* Model of the import migration of apollo-angular's v2 schematic          *)
(* (packages/apollo-angular/schematics/migrations/v2.ts, migrateImports).  *)
(*                                                                         *)
(* A file's text is a sequence of lexical items: trivia (a comment, a line *)
(* break) and statements.  An import declaration is kept with the shape    *)
(* the TypeScript parser gives it (moduleSpecifier, importClause, name,    *)
(* namedBindings, elements, propertyName).  Offsets and widths are counted *)
(* in tokens (Width), so recorder.remove / recorder.insertLeft work on     *)
(* offsets as in the code.                                                 *)
(***************************************************************************)
EXTENDS Integers, Sequences, FiniteSets, TLC

\* Largest number of items (statements or comments) of an input file.
MaxStmts == 2
\* Largest number of successive migrations of the same file.
MaxRuns == 2

\* JavaScript's undefined, for optional names.
None == "<undefined>"

VARIABLES
    path,        \* the path tree.visit hands to the visitor
    text,        \* the file's stored text in the tree
    input,       \* the text tree.read(path) returned to the latest visit
    importsMap,  \* importsMap of the latest visit, in key insertion order
    removals,    \* recorder.remove calls of the latest visit
    insertions,  \* recorder.insertLeft calls of the latest visit
    committed,   \* whether the latest visit called tree.commitUpdate
    status,      \* "start", "skipped", "done" or "threw" (a TypeError)
    runs         \* number of visits of the file so far

vars == <<path, text, input, importsMap, removals, insertions, committed,
          status, runs>>

----------------------------------------------------------------------------
\* Syntax trees

NoBindings == [kind |-> "none", elements |-> <<>>, name |-> None]

NamedImports(elements) ==
    [kind |-> "NamedImports", elements |-> elements, name |-> None]

NamespaceImport(local) ==
    [kind |-> "NamespaceImport", elements |-> <<>>, name |-> local]

NoClause == [present |-> FALSE, name |-> None, namedBindings |-> NoBindings]

ImportClause(default, bindings) ==
    [present |-> TRUE, name |-> default, namedBindings |-> bindings]

ImportSpecifier(propertyName, local) ==
    [propertyName |-> propertyName, name |-> local]

\* The text of a string literal, quotes included.
Quote(module) == <<"'", module, "'">>

ImportDeclaration(clause, module) ==
    [kind |-> "import", importClause |-> clause,
     moduleSpecifier |-> [isStringLiteral |-> TRUE, text |-> Quote(module)]]

\* An import whose module specifier is not a string literal (a parse
\* recovery node).
MalformedImport ==
    [kind |-> "import", importClause |-> ImportClause("X", NoBindings),
     moduleSpecifier |-> [isStringLiteral |-> FALSE, text |-> <<"m">>]]

NonImport(kind) ==
    [kind |-> kind, importClause |-> NoClause,
     moduleSpecifier |-> [isStringLiteral |-> FALSE, text |-> <<>>]]

Comment == NonImport("comment")
NL == NonImport("nl")
OtherStatement == NonImport("other")

IsTrivia(item) == item.kind \in {"comment", "nl"}

\* Number of tokens of an item.
Width(item) ==
    CASE item.kind = "nl" -> 1
      [] item.kind = "comment" -> 2
      [] item.kind = "other" -> 2
      [] OTHER ->
           2 + Len(item.moduleSpecifier.text)
             + (IF item.importClause.present THEN 1 ELSE 0)
             + (IF item.importClause.name # None THEN 1 ELSE 0)
             + (IF item.importClause.namedBindings.kind = "none" THEN 0
                ELSE 2 + Len(item.importClause.namedBindings.elements))

RECURSIVE TextLength(_)
TextLength(t) == IF t = <<>> THEN 0 ELSE Width(Head(t)) + TextLength(Tail(t))

\* Offset of the i-th item of t.
Offset(t, i) == TextLength(SubSeq(t, 1, i - 1))

----------------------------------------------------------------------------
\* The parser (ts.createSourceFile) and the positions it gives

\* Offset of the first token at or after item i: leading trivia is skipped.
RECURSIVE skipTrivia(_, _)
skipTrivia(t, i) ==
    IF i > Len(t) THEN TextLength(t)
    ELSE IF IsTrivia(t[i]) THEN skipTrivia(t, i + 1)
    ELSE Offset(t, i)

\* sourceFile.statements: the statements with statement.getStart() and
\* statement.getWidth().
RECURSIVE StatementsFrom(_, _)
StatementsFrom(t, i) ==
    IF i > Len(t) THEN <<>>
    ELSE (IF IsTrivia(t[i]) THEN <<>>
          ELSE <<[node |-> t[i], start |-> Offset(t, i),
                  width |-> Width(t[i])]>>)
         \o StatementsFrom(t, i + 1)

createSourceFile(t) == [text |-> t, statements |-> StatementsFrom(t, 1)]

\* sourceFile.getStart(): the position of the file's first token.
getFullStart(sourceFile) == 0
getStart(sourceFile) == skipTrivia(sourceFile.text, 1)

\* String.prototype.substr(start, length) on a sequence of characters.
substr(s, start, length) == SubSeq(s, start + 1, start + length)

\* path.includes(s) and path.endsWith(s), on a path split in segments.
includes(p, s) == \E i \in 1..Len(p) : p[i] = s
endsWith(p, s) == Len(p) > 0 /\ p[Len(p)] = s

----------------------------------------------------------------------------
\* importsMap: a JavaScript object, its keys in insertion order

HasKey(map, key) == \E i \in 1..Len(map) : map[i].key = key

Lookup(map, key) ==
    IF HasKey(map, key)
    THEN map[CHOOSE i \in 1..Len(map) : map[i].key = key].value
    ELSE <<>>

\* if (!importsMap[key]) { importsMap[key] = []; }
EnsureKey(map, key) ==
    IF HasKey(map, key) THEN map
    ELSE Append(map, [key |-> key, value |-> <<>>])

\* importsMap[key].push(symbol)
PushSymbol(map, key, symbol) ==
    [i \in 1..Len(map) |->
        IF map[i].key = key
        THEN [key |-> key, value |-> Append(map[i].value, symbol)]
        ELSE map[i]]

ObjectKeys(map) == [i \in 1..Len(map) |-> map[i].key]

----------------------------------------------------------------------------
\* getIdentifiers

\* The event of one import specifier.
IdentifierEvent(named) ==
    LET name == IF named.propertyName # None THEN named.propertyName
                ELSE named.name
    IN  [name |-> name,
         alias |-> IF name = named.name THEN None ELSE name]

\* The events getIdentifiers hands to onIdentifier, in order.  The children
\* of a NamedImports node are its ImportSpecifiers; the only child of a
\* NamespaceImport is an Identifier, which ts.isImportSpecifier rejects.
getIdentifiers(namedBindings) ==
    LET children == IF namedBindings.kind = "NamedImports"
                    THEN namedBindings.elements ELSE <<>>
    IN  [i \in 1..Len(children) |-> IdentifierEvent(children[i])]

----------------------------------------------------------------------------
\* collectIdentifiers and redirectImport

\* The callback collectIdentifiers gives to getIdentifiers.
onIdentifier(map, packageName, event) ==
    PushSymbol(EnsureKey(map, packageName), packageName,
               [name |-> event.name, alias |-> event.alias])

RECURSIVE CollectEvents(_, _, _)
CollectEvents(map, packageName, events) ==
    IF events = <<>> THEN map
    ELSE CollectEvents(onIdentifier(map, packageName, Head(events)),
                       packageName, Tail(events))

collectIdentifiers(map, packageName, namedBindings) ==
    CollectEvents(map, packageName, getIdentifiers(namedBindings))

\* recorder.remove(statement.getStart(), statement.getWidth())
RecorderRemove(rem, statement) ==
    Append(rem, [start |-> statement.start, width |-> statement.width])

\* The state of one visit: importsMap, the recorder's calls, and whether a
\* TypeError was thrown (nothing after the throw is executed).
redirectImportUnguarded(st, source, target, modulePath, statement) ==
    IF st.threw THEN st
    ELSE IF ~statement.node.importClause.present
         THEN [st EXCEPT !.threw = TRUE]
         ELSE [st EXCEPT
                 !.map = IF statement.node.importClause.namedBindings.kind
                             # "none"
                         THEN collectIdentifiers(st.map, target,
                                statement.node.importClause.namedBindings)
                         ELSE st.map,
                 !.removals = RecorderRemove(st.removals, statement)]

redirectImport(st, source, target, modulePath, statement) ==
    IF st.threw \/ modulePath # <<source>> THEN st
    ELSE IF ~statement.node.importClause.present
         THEN \* statement.importClause is undefined: reading
              \* .namedBindings throws a TypeError
              [st EXCEPT !.threw = TRUE]
         ELSE [st EXCEPT
                 !.map = IF statement.node.importClause.namedBindings.kind
                             # "none"
                         THEN collectIdentifiers(st.map, target,
                                statement.node.importClause.namedBindings)
                         ELSE st.map,
                 !.removals = RecorderRemove(st.removals, statement)]

\* The redirectImport calls of the statement loop, in the code's order.
Redirects ==
    << [source |-> "apollo-cache-inmemory", target |-> "@apollo/client/core"],
       [source |-> "apollo-client", target |-> "@apollo/client/core"],
       [source |-> "apollo-link", target |-> "@apollo/client/core"],
       [source |-> "apollo-cache", target |-> "@apollo/client/core"],
       [source |-> "apollo-angular-link-http",
        target |-> "apollo-angular/http"],
       [source |-> "apollo-angular-link-http-batch",
        target |-> "apollo-angular/http"],
       [source |-> "apollo-utilities",
        target |-> "@apollo/client/utilities"],
       [source |-> "apollo-link-http",
        target |-> "@apollo/client/link/http"],
       [source |-> "apollo-link-batch-http",
        target |-> "@apollo/client/link/batch-http"],
       [source |-> "apollo-link-context",
        target |-> "@apollo/client/link/context"],
       [source |-> "apollo-link-error",
        target |-> "@apollo/client/link/error"],
       [source |-> "apollo-link-schema",
        target |-> "@apollo/client/link/schema"],
       [source |-> "apollo-link-ws", target |-> "@apollo/client/link/ws"],
       [source |-> "apollo-angular", target |-> "apollo-angular"],
       [source |-> "apollo-angular-link-headers",
        target |-> "apollo-angular/headers"] >>

RECURSIVE RedirectAll(_, _, _, _)
RedirectAll(st, k, modulePath, statement) ==
    IF k > Len(Redirects) THEN st
    ELSE RedirectAll(redirectImport(st, Redirects[k].source,
                                    Redirects[k].target, modulePath,
                                    statement),
                     k + 1, modulePath, statement)

\* The graphql-tag branch of the statement loop.
graphqlTag(st, modulePath, statement) ==
    IF st.threw \/ modulePath # <<"graphql-tag">> THEN st
    ELSE LET map == EnsureKey(st.map, "apollo-angular")
         IN  IF ~statement.node.importClause.present
                \/ statement.node.importClause.name = None
             THEN \* statement.importClause or statement.importClause.name
                  \* is undefined: a TypeError
                  [st EXCEPT !.map = map, !.threw = TRUE]
             ELSE LET alias == statement.node.importClause.name
                  IN  [st EXCEPT
                         !.map = PushSymbol(map, "apollo-angular",
                                   [name |-> "gql",
                                    alias |-> IF alias # "gql" THEN alias
                                              ELSE None]),
                         !.removals = RecorderRemove(st.removals, statement)]

\* The callback of sourceFile.statements.forEach.
forEachStatement(st, statement) ==
    IF st.threw THEN st
    ELSE IF statement.node.kind = "import"
            /\ statement.node.moduleSpecifier.isStringLiteral
         THEN LET nodeText == statement.node.moduleSpecifier.text
                  modulePath == substr(nodeText, 1, Len(nodeText) - 2)
              IN  graphqlTag(RedirectAll(st, 1, modulePath, statement),
                             modulePath, statement)
         ELSE st

RECURSIVE ScanStatements(_, _)
ScanStatements(st, statements) ==
    IF statements = <<>> THEN st
    ELSE ScanStatements(forEachStatement(st, Head(statements)),
                        Tail(statements))

----------------------------------------------------------------------------
\* Emitting the merged imports

\* im.alias ? `${im.name} as ${im.alias}` : im.name, as the parser reads it
\* back: `X as A` is a specifier with propertyName X and name A, `X` is a
\* specifier with name X and no propertyName.
RenderSymbol(im) ==
    IF im.alias # None THEN ImportSpecifier(im.name, im.alias)
    ELSE ImportSpecifier(None, im.name)

\* `import {${props}} from '${importSource}';\n`
RenderImport(symbols, importSource) ==
    << ImportDeclaration(
         ImportClause(None,
            NamedImports([i \in 1..Len(symbols) |-> RenderSymbol(symbols[i])])),
         importSource),
       NL >>

\* importSources.forEach: one recorder.insertLeft per key of importsMap.
EmitImportsReversed(map, sourceFile) ==
    [i \in 1..Len(map) |->
        [pos |-> getStart(sourceFile),
         content |-> RenderImport(map[Len(map) + 1 - i].value,
                                  map[Len(map) + 1 - i].key)]]

EmitImports(map, sourceFile) ==
    [i \in 1..Len(ObjectKeys(map)) |->
        [pos |-> getStart(sourceFile),
         content |-> RenderImport(Lookup(map, ObjectKeys(map)[i]),
                                  ObjectKeys(map)[i])]]

----------------------------------------------------------------------------
\* The recorder's edits applied (tree.commitUpdate)

\* The texts inserted at offset pos, in the order of the insertLeft calls.
RECURSIVE InsertedAt(_, _)
InsertedAt(ins, pos) ==
    IF ins = <<>> THEN <<>>
    ELSE (IF Head(ins).pos = pos THEN Head(ins).content ELSE <<>>)
         \o InsertedAt(Tail(ins), pos)

IsRemoved(rem, start, width) ==
    \E j \in 1..Len(rem) :
        rem[j].start <= start /\ start + width <= rem[j].start + rem[j].width

RECURSIVE Patch(_, _, _, _)
Patch(t, i, rem, ins) ==
    IF i > Len(t) THEN InsertedAt(ins, TextLength(t))
    ELSE InsertedAt(ins, Offset(t, i))
         \o (IF IsRemoved(rem, Offset(t, i), Width(t[i])) THEN <<>>
             ELSE <<t[i]>>)
         \o Patch(t, i + 1, rem, ins)

commitUpdate(t, rem, ins) == Patch(t, 1, rem, ins)

----------------------------------------------------------------------------
\* The visitor of tree.visit in migrateImports

NoEdits(t, st) ==
    [status |-> st, text |-> t, importsMap |-> <<>>, removals |-> <<>>,
     insertions |-> <<>>, committed |-> FALSE]

migrateImports(p, t) ==
    IF includes(p, "node_modules") \/ ~endsWith(p, ".ts")
    THEN NoEdits(t, "skipped")
    ELSE LET sourceFile == createSourceFile(t)
             st == ScanStatements(
                     [map |-> <<>>, removals |-> <<>>, threw |-> FALSE],
                     sourceFile.statements)
             ins == EmitImports(st.map, sourceFile)
         IN  IF st.threw
             THEN [status |-> "threw", text |-> t, importsMap |-> st.map,
                   removals |-> st.removals, insertions |-> <<>>,
                   committed |-> FALSE]
             ELSE [status |-> "done",
                   text |-> IF Len(ObjectKeys(st.map)) > 0
                            THEN commitUpdate(t, st.removals, ins) ELSE t,
                   importsMap |-> st.map, removals |-> st.removals,
                   insertions |-> ins,
                   committed |-> Len(ObjectKeys(st.map)) > 0]

----------------------------------------------------------------------------
\* Input files

Paths ==
    { <<"src", "/", "app", ".ts">>,
      <<"node_modules", "/", "lib", ".ts">>,
      <<"src", "/", "app", ".html">> }

\* Modules that some redirect or the graphql-tag branch matches.
MatchedModules ==
    {"apollo-client", "apollo-link", "apollo-angular", "graphql-tag"}

Clauses ==
    { NoClause,
      ImportClause("gql", NoBindings),
      ImportClause("myGql", NoBindings),
      ImportClause(None, NamedImports(<<ImportSpecifier(None, "X")>>)),
      ImportClause(None, NamedImports(<<ImportSpecifier("X", "A")>>)),
      ImportClause("gql", NamedImports(<<ImportSpecifier(None, "Y")>>)),
      ImportClause(None, NamespaceImport("ns")) }

Items ==
    { ImportDeclaration(c, m) : c \in Clauses, m \in MatchedModules }
    \cup { ImportDeclaration(NoClause, "@angular/core"),
           ImportDeclaration(
             ImportClause(None, NamedImports(<<ImportSpecifier(None, "X")>>)),
             "@angular/core"),
           MalformedImport, OtherStatement, Comment }

\* Each item on a line of its own.
Lines(items) ==
    [i \in 1..(2 * Len(items)) |->
        IF i % 2 = 1 THEN items[(i + 1) \div 2] ELSE NL]

Inputs ==
    { Lines(items) :
        items \in UNION { [1..n -> Items] : n \in 0..MaxStmts } }

----------------------------------------------------------------------------
\* The state machine

Init ==
    /\ path \in Paths
    /\ text \in Inputs
    /\ input = text
    /\ importsMap = <<>>
    /\ removals = <<>>
    /\ insertions = <<>>
    /\ committed = FALSE
    /\ status = "start"
    /\ runs = 0

\* One run of the migration visits the file: the whole visitor, commit
\* included.  A TypeError leaves the visitor and tree.visit, and no later
\* visit happens.
Visit ==
    /\ status # "threw"
    /\ runs < MaxRuns
    /\ LET r == migrateImports(path, text)
       IN  /\ input' = text
           /\ text' = r.text
           /\ importsMap' = r.importsMap
           /\ removals' = r.removals
           /\ insertions' = r.insertions
           /\ committed' = r.committed
           /\ status' = r.status
    /\ runs' = runs + 1
    /\ UNCHANGED path

Next == Visit

Spec == Init /\ [][Next]_vars

----------------------------------------------------------------------------
\* Vocabulary of the properties, read off the text the visit was given

Range(seq) == { seq[i] : i \in 1..Len(seq) }

\* The statements of the text the latest visit read, with their spans.
InputStatements == Range(StatementsFrom(input, 1))

\* The latest visit ran the scan (the path was not filtered out) and ended
\* without an exception.
Scanned == runs >= 1 /\ status = "done"

IsLiteralImport(node) ==
    node.kind = "import" /\ node.moduleSpecifier.isStringLiteral

\* The module an import names, without the quotes.
ModuleOf(node) == node.moduleSpecifier.text[2]

Sources == { Redirects[k].source : k \in 1..Len(Redirects) }

\* The destination of a mapped source module, or of graphql-tag.
TargetOf(module) ==
    IF module = "graphql-tag" THEN "apollo-angular"
    ELSE Redirects[CHOOSE k \in 1..Len(Redirects) :
                     Redirects[k].source = module].target

IsMatched(node) ==
    IsLiteralImport(node) /\ ModuleOf(node) \in Sources \cup {"graphql-tag"}

Span(s) == [start |-> s.start, width |-> s.width]

HasNamedImports(node) ==
    node.importClause.present
    /\ node.importClause.namedBindings.kind = "NamedImports"

\* The exported and the local name of an import specifier.
Exported(spec) ==
    IF spec.propertyName # None THEN spec.propertyName ELSE spec.name

\* The symbol the data model prescribes for a specifier.
SymbolOf(spec) ==
    [name |-> Exported(spec),
     alias |-> IF spec.name # Exported(spec) THEN spec.name ELSE None]

\* The specifier an emitted import shows for a symbol: `X as A`, or `X`.
ShownAs(symbol) ==
    IF symbol.alias # None THEN ImportSpecifier(symbol.name, symbol.alias)
    ELSE ImportSpecifier(None, symbol.name)

\* The import declarations the latest visit emitted for a destination.
EmittedFor(target) ==
    { insertions[i].content[1] : i \in
        { j \in 1..Len(insertions) :
            ModuleOf(insertions[j].content[1]) = target } }

\* Number of leading trivia items of a text.
LeadingTrivia(t) ==
    CHOOSE k \in 0..Len(t) :
        /\ \A i \in 1..k : IsTrivia(t[i])
        /\ k = Len(t) \/ ~IsTrivia(t[k + 1])

RECURSIVE Concat(_)
Concat(seqs) == IF seqs = <<>> THEN <<>> ELSE Head(seqs) \o Concat(Tail(seqs))

\* All emitted text, in the order of the insertLeft calls.
EmittedText == Concat([i \in 1..Len(insertions) |-> insertions[i].content])

\* The statement contributes at least one symbol to a bucket.
Contributes(node) ==
    /\ IsMatched(node)
    /\ \/ ModuleOf(node) \in Sources /\ HasNamedImports(node)
          /\ node.importClause.namedBindings.elements # <<>>
       \/ ModuleOf(node) = "graphql-tag" /\ node.importClause.present
          /\ node.importClause.name # None

\* The destinations of the contributing statements, each once, in the order
\* of first encounter.
RECURSIVE FirstEncountered(_, _)
FirstEncountered(statements, seen) ==
    IF statements = <<>> THEN <<>>
    ELSE LET node == Head(statements).node
             new == Contributes(node) /\ TargetOf(ModuleOf(node)) \notin seen
         IN  (IF new THEN <<TargetOf(ModuleOf(node))>> ELSE <<>>)
             \o FirstEncountered(Tail(statements),
                  IF new THEN seen \cup {TargetOf(ModuleOf(node))} ELSE seen)

----------------------------------------------------------------------------
\* Properties

\* C1 -- alias fidelity: every specifier of a matched named import is
\* recorded as (exported name, local name if different) in its destination's
\* bucket, and the import emitted for that destination shows it as
\* `X as A`, or as `X` when the two names are equal.
C1_AliasFidelity ==
    Scanned =>
      \A s \in InputStatements :
        (IsMatched(s.node) /\ ModuleOf(s.node) \in Sources
         /\ HasNamedImports(s.node)) =>
          \A spec \in Range(s.node.importClause.namedBindings.elements) :
            /\ SymbolOf(spec)
                 \in Range(Lookup(importsMap, TargetOf(ModuleOf(s.node))))
            /\ \E d \in EmittedFor(TargetOf(ModuleOf(s.node))) :
                 ShownAs(SymbolOf(spec))
                   \in Range(d.importClause.namedBindings.elements)

\* C2 -- dedup law: each destination bucket holds every (name, alias) pair
\* at most once, and so does the import emitted for it.
C2_BucketsHaveNoDuplicates ==
    Scanned =>
      /\ \A b \in Range(importsMap) :
           \A i, j \in 1..Len(b.value) : b.value[i] = b.value[j] => i = j
      /\ \A k \in 1..Len(insertions) :
           LET els == insertions[k].content[1].importClause
                        .namedBindings.elements
           IN  \A i, j \in 1..Len(els) : els[i] = els[j] => i = j

\* The (exported name, local name) pairs a matched statement binds: its
\* specifiers, its default binding, its namespace binding.  The default
\* binding of a graphql-tag import counts as the export gql.
BoundPairs(node) ==
    { <<Exported(spec), spec.name>> :
        spec \in Range(node.importClause.namedBindings.elements) }
    \cup (IF node.importClause.name # None
          THEN { <<IF ModuleOf(node) = "graphql-tag" THEN "gql"
                   ELSE "default", node.importClause.name>> }
          ELSE {})
    \cup (IF node.importClause.namedBindings.kind = "NamespaceImport"
          THEN { <<"*", node.importClause.namedBindings.name>> }
          ELSE {})

\* C3 -- symbol-set preservation: under every destination, the pairs the
\* emitted imports bind are exactly the pairs bound by the matched statements
\* that have named bindings (or are graphql-tag default imports) and map to
\* that destination.
C3_SymbolSetPreserved ==
    Scanned =>
      \A target \in { TargetOf(m) : m \in Sources \cup {"graphql-tag"} } :
        UNION { BoundPairs(d) : d \in EmittedFor(target) }
        = UNION { BoundPairs(s.node) : s \in
                    { x \in InputStatements :
                        /\ IsMatched(x.node)
                        /\ TargetOf(ModuleOf(x.node)) = target
                        /\ x.node.importClause.present
                        /\ \/ x.node.importClause.namedBindings.kind # "none"
                           \/ ModuleOf(x.node) = "graphql-tag" } }

\* C4 -- idempotence: a second run over the output of the first finds no
\* matching statement, commits nothing and leaves the text as it was.
C4_SecondRunIsNoOp ==
    (runs = 2 /\ status = "done") =>
      removals = <<>> /\ ~committed /\ text = input

\* C5 -- no-op safety: with no matched import in the file, the visit records
\* no removal and no insertion, does not commit, and the stored text is
\* unchanged.
C5_NoMatchNoEdit ==
    (runs >= 1 /\ \A s \in InputStatements : ~IsMatched(s.node)) =>
      /\ status \in {"done", "skipped"}
      /\ removals = <<>>
      /\ insertions = <<>>
      /\ ~committed
      /\ text = input

C5_Witness ==
    /\ Scanned
    /\ \A s \in InputStatements : ~IsMatched(s.node)
    /\ \E s \in InputStatements :
         IsLiteralImport(s.node) /\ HasNamedImports(s.node)

\* C6 -- every matched statement has exactly one removal of its span
\* recorded, and the removals are applied to the stored text, whatever the
\* statement or the rest of the file contributes.
C6_MatchedRemovedOnceAndApplied ==
    Scanned =>
      \A s \in InputStatements :
        IsMatched(s.node) =>
          /\ Cardinality({ j \in 1..Len(removals) : removals[j] = Span(s) })
               = 1
          /\ committed
          /\ text = commitUpdate(input, removals, insertions)

\* C7 -- output shape and order: the visit emits exactly one import per
\* destination that received a symbol, in the order in which the
\* destinations were first encountered, and the committed text shows them
\* in that order.
C7_OneImportPerDestinationInOrder ==
    Scanned =>
      LET dests == FirstEncountered(StatementsFrom(input, 1), {})
          k == LeadingTrivia(input)
      IN  /\ Len(insertions) = Len(dests)
          /\ \A i \in 1..Len(dests) :
               /\ Len(insertions[i].content) = 2
               /\ IsLiteralImport(insertions[i].content[1])
               /\ ModuleOf(insertions[i].content[1]) = dests[i]
               /\ insertions[i].content[2] = NL
          /\ committed = (dests # <<>>)
          /\ committed =>
               /\ Len(text) >= k + 2 * Len(dests)
               /\ \A i \in 1..Len(dests) :
                    /\ text[k + 2 * i - 1] = insertions[i].content[1]
                    /\ text[k + 2 * i] = NL

C7_Witness ==
    /\ Scanned
    /\ Len(insertions) = 2
    /\ ModuleOf(insertions[1].content[1]) = "apollo-angular"
    /\ ModuleOf(insertions[2].content[1]) = "@apollo/client/core"
    /\ text[1] = insertions[1].content[1]

GqlDefaultImport(local) ==
    ImportDeclaration(ImportClause(local, NoBindings), "graphql-tag")

GqlNamedImport(specifier) ==
    ImportDeclaration(ImportClause(None, NamedImports(<<specifier>>)),
                      "apollo-angular")

\* C8 -- graphql-tag rule: in every visit that scans the file, every
\* graphql-tag import with default binding L has its span removed and puts
\* (gql, L if L is not gql) in the apollo-angular bucket, which is emitted as one import together with the
\* named imports redirected from apollo-angular; `import gql from
\* 'graphql-tag'` becomes `import {gql} from 'apollo-angular';` and
\* `import myGql from 'graphql-tag'` becomes
\* `import {gql as myGql} from 'apollo-angular';`.
C8_GraphqlTagDefaultImport ==
    (runs >= 1 /\ status # "skipped") =>
      /\ \A s \in InputStatements :
           (IsLiteralImport(s.node) /\ ModuleOf(s.node) = "graphql-tag"
            /\ s.node.importClause.present
            /\ s.node.importClause.name # None) =>
             LET L == s.node.importClause.name
                 symbol == [name |-> "gql",
                            alias |-> IF L # "gql" THEN L ELSE None]
             IN  /\ Span(s) \in Range(removals)
                 /\ symbol \in Range(Lookup(importsMap, "apollo-angular"))
                 /\ committed
                 /\ Cardinality(EmittedFor("apollo-angular")) = 1
                 /\ \A d \in EmittedFor("apollo-angular") :
                      /\ ShownAs(symbol)
                           \in Range(d.importClause.namedBindings.elements)
                      /\ Len(d.importClause.namedBindings.elements)
                           = Len(Lookup(importsMap, "apollo-angular"))
      /\ input = <<GqlDefaultImport("gql"), NL>> =>
           text = <<GqlNamedImport(ImportSpecifier(None, "gql")), NL, NL>>
      /\ input = <<GqlDefaultImport("myGql"), NL>> =>
           text = <<GqlNamedImport(ImportSpecifier("gql", "myGql")), NL, NL>>

\* C9 -- a side-effect-only import of a mapped source module is processed
\* without an error: no symbol, no bucket entry, its span recorded for
\* deletion.
C9_SideEffectImportProcessed ==
    (runs >= 1 /\ status # "skipped") =>
      \A s \in InputStatements :
        (IsLiteralImport(s.node) /\ ModuleOf(s.node) \in Sources
         /\ ~s.node.importClause.present) =>
           /\ status = "done"
           /\ Span(s) \in Range(removals)

\* C10 as stated -- every emitted import is inserted at offset 0 of the
\* file's text, before any leading comment or whitespace.
C10_InsertedAtOffsetZero ==
    Scanned =>
      /\ \A i \in 1..Len(insertions) : insertions[i].pos = 0
      /\ committed =>
           SubSeq(text, 1, Len(EmittedText)) = EmittedText

\* C10 amended -- every emitted import is inserted at the offset of the
\* file's first token, that is after the leading comments and whitespace
\* and before every statement of the original text; no insertion offset
\* lies strictly inside a removed span; the committed text is the leading
\* trivia, then the emitted imports, then the rest of the original text
\* without the removed statements.
C10_InsertedAtFirstToken ==
    Scanned =>
      LET k == LeadingTrivia(input)
          anchor == TextLength(SubSeq(input, 1, k))
      IN  /\ \A i \in 1..Len(insertions) :
               /\ insertions[i].pos = anchor
               /\ \A j \in 1..Len(removals) :
                    ~(removals[j].start < insertions[i].pos
                      /\ insertions[i].pos
                           < removals[j].start + removals[j].width)
          /\ committed =>
               /\ SubSeq(text, 1, k) = SubSeq(input, 1, k)
               /\ SubSeq(text, k + 1, k + Len(EmittedText)) = EmittedText
               /\ SubSeq(text, k + Len(EmittedText) + 1, Len(text))
                    = commitUpdate(SubSeq(input, k + 1, Len(input)),
                        [j \in 1..Len(removals) |->
                           [start |-> removals[j].start - anchor,
                            width |-> removals[j].width]],
                        <<>>)

C10_Witness ==
    /\ Scanned
    /\ committed
    /\ Len(input) >= 3
    /\ input[1] = Comment
    /\ IsMatched(input[3])
    /\ insertions # <<>>
    /\ insertions[1].pos = 3

====
